---- MODULE Spec2Model ----
(***************************************************************************)
(* Model of the retail insights assistant: the LLM client layer with its   *)
(* fallback chains (utils/llm_utils.py, utils/openrouter_llm.py) and the   *)
(* agent chain extract_data -> validate -> generate_response (agents/).    *)
(*                                                                         *)
(* Spec          one LLM client instance and its _generate calls           *)
(* SpecFair      Spec with the loops of a running call going on            *)
(* SpecPipeline  one run of the agent chain over an AgentState dictionary  *)
(* SpecGetLLM    one get_llm call in an environment                        *)
(***************************************************************************)
EXTENDS Integers, Sequences, FiniteSets, TLC

VARIABLES
    client,          \* class of the constructed LLM client
    primary_model,   \* GeminiFallbackLLM.primary_model
    current_model,   \* GeminiFallbackLLM.current_model
    llm,             \* model of the ChatGoogleGenerativeAI held in GeminiFallbackLLM._llm
    model_name,      \* OpenRouterLLM._model_name
    pending,         \* models the running call's for loop has still to visit
    last_error,      \* OpenRouterLLM._generate's local last_error
    result,          \* how the last _generate call ended, or that it is running
    start_model,     \* history: current_model when the last _generate call began
    responses,       \* history: what each attempt of the last call was answered
    attempts,        \* history: models requested by the last call, in order
    calls,           \* history: number of _generate calls made on the instance
    state,           \* the AgentState dictionary threaded through the chain
    pc,              \* the next stage of the agent chain
    llm_calls,       \* history: LLM invocations made by generate_response
    called,          \* history: the agent that returned last
    input,           \* history: the state that agent was given
    environment,     \* os.environ, st.secrets and the installed packages
    built            \* what the last get_llm call returned or raised

llmVars == <<client, primary_model, current_model, llm, model_name, pending,
             last_error, result, start_model, responses, attempts, calls>>
pipeVars == <<state, pc, llm_calls, called, input>>
cfgVars == <<environment, built>>
vars == <<llmVars, pipeVars, cfgVars>>

----------------------------------------------------------------------------
(* Sequences and text.  A text is a sequence of one-character strings, so  *)
(* that Python's `in` (substring) and str.lower() are computed.            *)

Range(s) == {s[i] : i \in 1..Len(s)}

Contains(text, sub) ==
    \E i \in 0..(Len(text) - Len(sub)) :
        \A j \in 1..Len(sub) : text[i + j] = sub[j]

LowerChar(c) ==
    CASE c = "A" -> "a" [] c = "D" -> "d" [] c = "E" -> "e" [] c = "F" -> "f"
      [] c = "N" -> "n" [] c = "O" -> "o" [] c = "Q" -> "q" [] c = "R" -> "r"
      [] c = "S" -> "s" [] c = "T" -> "t" [] c = "U" -> "u"
      [] OTHER -> c

Lower(text) == [i \in 1..Len(text) |-> LowerChar(text[i])]

----------------------------------------------------------------------------
(* utils/llm_utils.py: GeminiFallbackLLM                                   *)

GEMINI_FALLBACK_MODELS ==
    << "gemini-2.0-flash", "gemini-1.5-flash-latest",
       "gemini-1.5-pro-latest", "gemini-pro" >>

\* Values of GEMINI_MODEL the instance is constructed with: the default, a
\* model further down the fallback list, one that is not in the list.
GeminiModelChoices ==
    {"gemini-2.0-flash", "gemini-1.5-pro-latest", "gemini-2.5-flash"}

\* str(e) of the exceptions an attempt may raise.
Err429      == <<"4", "2", "9">>
ErrQuota    == <<"Q", "u", "o", "t", "a">>
ErrNotFound == <<"N", "O", "T", " ", "F", "O", "U", "N", "D">>
ErrTimeout  == <<"t", "i", "m", "e", "o", "u", "t">>
ErrorTexts  == {Err429, ErrQuota, ErrNotFound, ErrTimeout}

\* What the underlying client answers to one _generate: a ChatResult, or an
\* exception with the given text.
GeminiOk == [ok |-> TRUE, error |-> <<>>]
GeminiResponses == {GeminiOk} \cup {[ok |-> FALSE, error |-> e] : e \in ErrorTexts}

should_fallback_any(error_str) == TRUE

should_fallback(error_str) ==
    LET error_lower == Lower(error_str) IN
    \/ Contains(error_str, <<"4", "2", "9">>)
    \/ Contains(error_str, <<"4", "0", "4">>)
    \/ Contains(error_lower, <<"q", "u", "o", "t", "a">>)
    \/ Contains(error_lower, <<"r", "a", "t", "e">>)
    \/ Contains(error_lower, <<"n", "o", "t", " ", "f", "o", "u", "n", "d">>)
    \/ Contains(error_lower, <<"n", "o", "t", " ", "s", "u", "p", "p", "o", "r", "t", "e", "d">>)

RECURSIVE FilterModels(_, _, _)
\* The loop of _get_fallback_models over `list` with the accumulator `models`.
FilterModels(list, cur, models) ==
    IF list = <<>> THEN models
    ELSE LET m == Head(list) IN
         FilterModels(Tail(list), cur,
                      IF m # cur /\ m \notin Range(models)
                      THEN Append(models, m) ELSE models)

get_fallback_models_all(cur) == GEMINI_FALLBACK_MODELS

\* The fallback list cut after its first model.
get_fallback_models_one(cur) ==
    SubSeq(FilterModels(GEMINI_FALLBACK_MODELS, cur, <<>>), 1, 1)

get_fallback_models(cur) == FilterModels(GEMINI_FALLBACK_MODELS, cur, <<>>)

\* _create_llm with current_model set to the default model, not `model`.
create_llm_default_name(model) ==
    [llm |-> model, current_model |-> GEMINI_FALLBACK_MODELS[1]]

\* _create_llm(model): the fields it assigns.
create_llm(model) == [llm |-> model, current_model |-> model]

\* How a _generate call stands: running, returned the answer of `model`, or
\* raised an exception with text `error` (exhausted: wrapped in "All Gemini
\* models exhausted. Original error: ...").
NoCall == [kind |-> "none", model |-> "", error |-> <<>>, exhausted |-> FALSE]
Running == [kind |-> "running", model |-> "", error |-> <<>>, exhausted |-> FALSE]
Return(model) == [kind |-> "return", model |-> model, error |-> <<>>, exhausted |-> FALSE]
Raise(error) == [kind |-> "raise", model |-> "", error |-> error, exhausted |-> FALSE]
Exhausted(error) == [kind |-> "raise", model |-> "", error |-> error, exhausted |-> TRUE]

----------------------------------------------------------------------------
(* utils/openrouter_llm.py: OpenRouterLLM                                  *)

OPENROUTER_FALLBACK_MODELS ==
    << "google/gemini-2.0-flash-exp:free",
       "meta-llama/llama-3.2-3b-instruct:free",
       "mistralai/mistral-7b-instruct:free",
       "huggingfaceh4/zephyr-7b-beta:free",
       "openchat/openchat-7b:free" >>

\* Values of the `model` argument: the default, a model further down the
\* fallback list, one that is not in the list (settings.openai_model).
OpenRouterModelChoices ==
    {"google/gemini-2.0-flash-exp:free", "mistralai/mistral-7b-instruct:free",
     "gpt-4o-mini"}

\* What one _make_request is answered: requests.post raises (raised), or a
\* response with a status code whose body holds choices[0].message.content
\* (has_content) or does not.
OpenRouterResponses ==
    { [raised |-> FALSE, status_code |-> 200, has_content |-> TRUE],
      [raised |-> FALSE, status_code |-> 200, has_content |-> FALSE],
      [raised |-> FALSE, status_code |-> 429, has_content |-> FALSE],
      [raised |-> FALSE, status_code |-> 500, has_content |-> FALSE],
      [raised |-> TRUE,  status_code |-> 0,   has_content |-> FALSE] }

RECURSIVE RemoveModel(_, _)
\* [m for m in list if m != name]
RemoveModel(list, name) ==
    IF list = <<>> THEN <<>>
    ELSE IF Head(list) # name
         THEN <<Head(list)>> \o RemoveModel(Tail(list), name)
         ELSE RemoveModel(Tail(list), name)

models_to_try_unfiltered(name) == <<name>> \o OPENROUTER_FALLBACK_MODELS

\* The configured model put after the models of the list.
models_to_try_list_first(name) == RemoveModel(OPENROUTER_FALLBACK_MODELS, name) \o <<name>>

models_to_try(name) == <<name>> \o RemoveModel(OPENROUTER_FALLBACK_MODELS, name)

\* last_error: None, or the text built for a failed attempt.  The text of a
\* failure is identified by its kind and the model whose request failed:
\* "Rate limited on {model}", "OpenRouter API error: {status} - {text}" of
\* that response, str(e) of that exception.
NoError == [kind |-> "None", model |-> ""]
RateLimited(model) == [kind |-> "rate_limited", model |-> model]
ApiError(model) == [kind |-> "api_error", model |-> model]
RaisedError(model) == [kind |-> "exception", model |-> model]

\* One iteration of the for loop of OpenRouterLLM._generate: `r` answers the
\* request for `model`.  "return", or the last_error the iteration sets.
openrouter_iteration(model, r) ==
    IF r.raised
    THEN [kind |-> "continue", last_error |-> RaisedError(model)]
    ELSE IF r.status_code = 200
         THEN IF r.has_content
              THEN [kind |-> "return", last_error |-> NoError]
              ELSE \* result['choices'][0]['message']['content'] raises
                   [kind |-> "continue", last_error |-> RaisedError(model)]
         ELSE IF r.status_code = 429
              THEN [kind |-> "continue", last_error |-> RateLimited(model)]
              ELSE [kind |-> "continue", last_error |-> ApiError(model)]

----------------------------------------------------------------------------
(* The LLM client: construction and calls.  A _generate call is a sequence *)
(* of attempts, each answered by the remote service; while a call runs     *)
(* (result.kind = "running") only its next attempt is enabled.             *)

\* The _generate calls followed on one instance.
MaxCalls == 2

\* No get_llm call is looked at.
CfgIdle ==
    /\ environment = <<>>
    /\ built = [kind |-> "none"]

PipeIdle ==
    /\ called = "none"
    /\ input = <<>>
    /\ state = <<>>
    /\ pc = "idle"
    /\ llm_calls = <<>>

\* GeminiFallbackLLM.__init__
GeminiInit(model) ==
    /\ client = "GeminiFallbackLLM"
    /\ primary_model = model
    /\ current_model = create_llm(model).current_model
    /\ llm = create_llm(model).llm
    /\ model_name = ""

\* OpenRouterLLM.__init__
OpenRouterInit(model) ==
    /\ client = "OpenRouterLLM"
    /\ model_name = model
    /\ primary_model = ""
    /\ current_model = ""
    /\ llm = ""

Init ==
    /\ \/ \E m \in GeminiModelChoices : GeminiInit(m)
       \/ \E m \in OpenRouterModelChoices : OpenRouterInit(m)
    /\ pending = <<>>
    /\ last_error = NoError
    /\ result = NoCall
    /\ start_model = ""
    /\ responses = <<>>
    /\ attempts = <<>>
    /\ calls = 0
    /\ PipeIdle
    /\ CfgIdle

\* GeminiFallbackLLM._generate up to the for loop: the attempt on self._llm
\* and, on a fallback-eligible failure, the evaluation of
\* self._get_fallback_models().
GeminiGenerate ==
    /\ client = "GeminiFallbackLLM"
    /\ result.kind # "running"
    /\ calls < MaxCalls
    /\ calls' = calls + 1
    /\ \E r \in GeminiResponses :
         /\ start_model' = current_model
         /\ attempts' = <<llm>>
         /\ responses' = <<r>>
         /\ IF r.ok
            THEN result' = Return(llm) /\ pending' = <<>>
            ELSE IF should_fallback(r.error)
                 THEN LET models == get_fallback_models(current_model) IN
                      /\ pending' = models
                      /\ result' = IF models = <<>> THEN Exhausted(r.error) ELSE Running
                 ELSE result' = Raise(r.error) /\ pending' = <<>>
    /\ UNCHANGED <<client, primary_model, current_model, llm, model_name,
                   last_error, pipeVars, cfgVars>>

\* One iteration of the for loop of GeminiFallbackLLM._generate, and the
\* raise that follows the loop when it was the last.
GeminiTryFallback ==
    /\ client = "GeminiFallbackLLM"
    /\ result.kind = "running"
    /\ \E r \in GeminiResponses :
         LET fallback_model == Head(pending)
             created == create_llm(fallback_model)
         IN  /\ llm' = created.llm
             /\ current_model' = created.current_model
             /\ attempts' = Append(attempts, fallback_model)
             /\ responses' = Append(responses, r)
             /\ IF r.ok
                THEN result' = Return(fallback_model) /\ pending' = <<>>
                ELSE IF should_fallback(r.error)
                     THEN /\ pending' = Tail(pending)
                          /\ result' = IF Tail(pending) = <<>>
                                       THEN Exhausted(responses[1].error)
                                       ELSE Running
                     ELSE result' = Raise(r.error) /\ pending' = <<>>
    /\ UNCHANGED <<client, primary_model, model_name, last_error, start_model,
                   calls, pipeVars, cfgVars>>

\* The iteration of OpenRouterLLM._generate's loop on `model`, with
\* `remaining` the models after it, and the raise that follows the loop.
\* `err`, `tried` and `answered` are last_error and the history before it.
OpenRouterAttempt(model, remaining, err, tried, answered) ==
    \E r \in OpenRouterResponses :
        LET it == openrouter_iteration(model, r) IN
        /\ attempts' = Append(tried, model)
        /\ responses' = Append(answered, r)
        /\ IF it.kind = "return"
           THEN /\ result' = Return(model)
                /\ pending' = <<>>
                /\ last_error' = err
           ELSE /\ last_error' = it.last_error
                /\ pending' = remaining
                /\ result' = IF remaining = <<>> THEN Raise(it.last_error) ELSE Running

\* OpenRouterLLM._generate up to the end of the first iteration.
OpenRouterGenerate ==
    /\ client = "OpenRouterLLM"
    /\ result.kind # "running"
    /\ calls < MaxCalls
    /\ calls' = calls + 1
    /\ start_model' = model_name
    /\ LET models == models_to_try(model_name) IN
       OpenRouterAttempt(Head(models), Tail(models), NoError, <<>>, <<>>)
    /\ UNCHANGED <<client, primary_model, current_model, llm, model_name, pipeVars, cfgVars>>

\* A later iteration of the loop.
OpenRouterTryNext ==
    /\ client = "OpenRouterLLM"
    /\ result.kind = "running"
    /\ OpenRouterAttempt(Head(pending), Tail(pending), last_error, attempts, responses)
    /\ UNCHANGED <<client, primary_model, current_model, llm, model_name,
                   start_model, calls, pipeVars, cfgVars>>

Next ==
    \/ GeminiGenerate
    \/ GeminiTryFallback
    \/ OpenRouterGenerate
    \/ OpenRouterTryNext

Spec == Init /\ [][Next]_vars

\* A running call goes on: the for loops of both _generate methods take
\* their next iteration once the attempt before has returned or raised.
SpecFair ==
    Init /\ [][Next]_vars
    /\ WF_vars(GeminiTryFallback) /\ WF_vars(OpenRouterTryNext)

----------------------------------------------------------------------------
(* Python values held in the AgentState dictionary.  Every value is a      *)
(* record tagged by its type, a dictionary is a function of its keys.      *)

PyNone == [none |-> TRUE]
PyStr(s) == [str |-> s]
PyBool(b) == [bool |-> b]
PyList(l) == [list |-> l]
\* A string whose characters are read (`in`).
PyText(chars) == [text |-> chars]

IsNone(v) == "none" \in DOMAIN v

\* bool(v): None, "", False, [] and {} are falsy; a non-empty dict and an
\* object are truthy.
Truthy(v) ==
    IF DOMAIN v = {} \/ IsNone(v) THEN FALSE
    ELSE IF "str" \in DOMAIN v THEN v.str # ""
    ELSE IF "bool" \in DOMAIN v THEN v.bool
    ELSE IF "list" \in DOMAIN v THEN v.list # <<>>
    ELSE IF "text" \in DOMAIN v THEN v.text # <<>>
    ELSE TRUE

\* str(v) inside an f-string, for None and for a string.
Str(v) == IF "none" \in DOMAIN v THEN "None" ELSE v.str

\* d.get(key) and d.get(key, default)
Get(d, key) == IF key \in DOMAIN d THEN d[key] ELSE PyNone
GetOr(d, key, default) == IF key \in DOMAIN d THEN d[key] ELSE default

\* The dictionary of the new keys alone.
Merge_update_only(d, upd) == upd

\* {**d, **upd}
Merge(d, upd) == upd @@ d

RECURSIVE Join(_)
\* The string of a sequence of one-character strings.
Join(chars) == IF chars = <<>> THEN "" ELSE Head(chars) \o Join(Tail(chars))

RECURSIVE JoinWith(_, _)
\* sep.join(strings)
JoinWith(strings, sep) ==
    IF strings = <<>> THEN ""
    ELSE IF Len(strings) = 1 THEN Head(strings)
    ELSE Head(strings) \o sep \o JoinWith(Tail(strings), sep)

RECURSIVE SumOf(_)
SumOf(ints) == IF ints = <<>> THEN 0 ELSE Head(ints) + SumOf(Tail(ints))

Min(a, b) == IF a <= b THEN a ELSE b
Max(a, b) == IF a >= b THEN a ELSE b

----------------------------------------------------------------------------
(* The DataFrame returned by data_layer.execute_query.  A frame is known   *)
(* by what the agents read of it: its row count, and per column the name,  *)
(* the dtype and the counts pandas reports (nulls, negative values,        *)
(* outliers), the number of duplicated rows, whether cells are hashable.   *)

MaxCols == 2

\* len(df) of the frames drawn: empty, one row, enough rows for the outlier
\* checks (more than 10) and a 5-sigma outlier, max_rows and one above.
RowCounts == {0, 1, 60, 1000000, 1000001}

ColRevenue == <<"r", "e", "v", "e", "n", "u", "e">>
ColAmount  == <<"A", "m", "o", "u", "n", "t">>
ColOrders  == <<"o", "r", "d", "e", "r", "s">>
ColStyle   == <<"S", "t", "y", "l", "e">>
ColDropped == <<"d", "r", "o", "p", "p", "e", "d">>

\* The columns a query may return, in the order they appear in a frame.
\* "number" is a dtype select_dtypes(include=['number']) selects.
Catalogue ==
    << [name |-> ColRevenue, dtype |-> "number"],
       [name |-> ColAmount,  dtype |-> "number"],
       [name |-> ColOrders,  dtype |-> "number"],
       [name |-> ColStyle,   dtype |-> "object"],
       [name |-> ColDropped, dtype |-> "object"] >>

NoStats == [negs |-> 0, sigma |-> 0, iqr |-> 0, wide |-> FALSE]

\* What pandas can report of a numeric column with `nonnull` values among
\* `rows` rows: negs = (col < 0).sum(); sigma = the values more than 5
\* standard deviations from the mean (one of them needs 27 values); iqr =
\* the values beyond 3 IQR of the quartiles (fewer than a quarter of the
\* values); wide = min > 0 and max / min > 10000.
NumericStats(rows, nonnull) ==
    {NoStats}
    \cup (IF nonnull >= 1
          THEN {[negs |-> 1, sigma |-> 0, iqr |-> 0, wide |-> FALSE]} ELSE {})
    \cup (IF nonnull >= 2
          THEN {[negs |-> 0, sigma |-> 0, iqr |-> 0, wide |-> TRUE]} ELSE {})
    \cup (IF nonnull > 10 /\ (rows \div 10) + 1 <= (nonnull - 1) \div 4
          THEN {[negs |-> 0, sigma |-> 0, iqr |-> (rows \div 10) + 1, wide |-> FALSE]}
          ELSE {})
    \cup (IF nonnull >= 27
          THEN {[negs |-> 0, sigma |-> 1, iqr |-> 0, wide |-> FALSE]} ELSE {})

\* The i-th column of the catalogue in a frame of `rows` rows: all values
\* present or all null.  The cells of an object column may be lists (a
\* LIST column of the database), which are not hashable.
ColumnChoices(i, rows) ==
    LET c == Catalogue[i]
        Stats(n) == IF c.dtype = "number"
                    THEN NumericStats(rows, rows - n) ELSE {NoStats}
        Hashable(n) == IF c.name = ColStyle /\ rows - n > 0
                       THEN BOOLEAN ELSE {TRUE}
    IN  UNION { { [name |-> c.name, dtype |-> c.dtype, nulls |-> n,
                   negs |-> st.negs, sigma |-> st.sigma, iqr |-> st.iqr,
                   wide |-> st.wide, hashable |-> h] :
                    st \in Stats(n), h \in Hashable(n) } :
                n \in {0, rows} }

RECURSIVE ColumnSeqs(_, _, _)
\* The sequences of n columns taken from the catalogue entries from..end.
ColumnSeqs(rows, n, from) ==
    IF n = 0 THEN {<<>>}
    ELSE UNION { { <<c>> \o rest : c \in ColumnChoices(i, rows),
                                   rest \in ColumnSeqs(rows, n - 1, i + 1) } :
                 i \in from..Len(Catalogue) }

\* df.duplicated().sum(): rows whose columns are all null are duplicates of
\* one another; otherwise none, or (from 60 rows on) more than half.
DupChoices(rows, columns) ==
    IF rows >= 2 /\ \A i \in 1..Len(columns) : columns[i].nulls = rows
    THEN {rows - 1}
    ELSE IF rows >= 60 /\ \A i \in 1..Len(columns) : columns[i].hashable
         THEN {0, (rows \div 2) + 1}
         ELSE {0}

\* The frames of `rows` rows.
FramesOf(rows) ==
    UNION { { [rows |-> rows, columns |-> cols, dups |-> d] :
                d \in DupChoices(rows, cols) } :
            cols \in UNION { ColumnSeqs(rows, n, 1) : n \in 1..MaxCols } }

DataFrames == UNION { FramesOf(r) : r \in RowCounts }

----------------------------------------------------------------------------
(* agents/validation_agent.py: ConfidenceScorer.  A score is the fraction  *)
(* num / den; the three sub-scores of a frame share the denominator        *)
(* 20 * cells, the overall score has ten times that.                       *)

\* df.empty
IsEmpty(df) == df.rows = 0 \/ Len(df.columns) = 0

\* len(df) * len(df.columns)
Cells(df) == df.rows * Len(df.columns)

\* df.isnull().sum().sum()
TotalNulls(df) == SumOf([i \in 1..Len(df.columns) |-> df.columns[i].nulls])

\* df.select_dtypes(include=['number']).columns
NumericCols(df) == SelectSeq(df.columns, LAMBDA c : c.dtype = "number")

\* len(df[col].dropna())
NonNull(df, c) == df.rows - c.nulls

\* max(0.0, min(1.0, score)) of a numerator over `den`
Clamp(num, den) == Max(0, Min(den, num))

score_data_quality(df) ==
    LET den == 20 * Cells(df)
        cols == NumericCols(df)
        \* score -= 0.1 for a column of the list with a negative value
        negative(c) ==
            IF c.name \in {ColRevenue, <<"q", "u", "a", "n", "t", "i", "t", "y">>,
                           <<"a", "m", "o", "u", "n", "t">>, ColOrders}
               /\ c.negs > 0
            THEN 2 * Cells(df) ELSE 0
        \* score -= 0.05 * min(outliers, 5); a column with an outlier has std > 0
        outliers(c) ==
            IF NonNull(df, c) > 10 /\ c.sigma > 0
            THEN Cells(df) * Min(c.sigma, 5) ELSE 0
        num == den - 10 * TotalNulls(df)
                   - SumOf([i \in 1..Len(cols) |-> negative(cols[i]) + outliers(cols[i])])
    IN  [num |-> Clamp(num, den), den |-> den]

score_completeness(df) ==
    LET den == 20 * Cells(df)
        expected_cols == << <<"r", "e", "v", "e", "n", "u", "e">>,
                            <<"o", "r", "d", "e", "r", "s">>,
                            <<"c", "o", "u", "n", "t">>,
                            <<"t", "o", "t", "a", "l">>,
                            <<"s", "u", "m">>,
                            <<"a", "v", "g">> >>
        has_expected ==
            Cardinality({ e \in 1..Len(expected_cols) :
                \E i \in 1..Len(df.columns) :
                    Contains(Lower(df.columns[i].name), expected_cols[e]) })
        \* min(has_expected * 0.1, 0.2)
        expected_bonus == Min(2 * Cells(df) * has_expected, 4 * Cells(df))
    IN  IF IsEmpty(df) THEN [num |-> 0, den |-> 20]
        ELSE [num |-> Min(den, den - 20 * TotalNulls(df) + expected_bonus),
              den |-> den]

score_consistency(df) ==
    LET den == 20 * Cells(df)
        cols == NumericCols(df)
        penalty(c) ==
            (IF c.dtype = "object" THEN 2 * Cells(df) ELSE 0)
            + (IF NonNull(df, c) > 0 /\ c.wide THEN 2 * Cells(df) ELSE 0)
        num == den - SumOf([i \in 1..Len(cols) |-> penalty(cols[i])])
    IN  [num |-> Clamp(num, den), den |-> den]

\* The weighted sum with the weights of the first two sub-scores swapped.
weighted_overall_equal(dq, co, cs) ==
    [num |-> 3 * dq.num + 4 * co.num + 3 * cs.num, den |-> 10 * dq.den]

\* overall = data_quality * 0.4 + completeness * 0.3 + consistency * 0.3
weighted_overall(dq, co, cs) ==
    [num |-> 4 * dq.num + 3 * co.num + 3 * cs.num, den |-> 10 * dq.den]

\* The scores of an empty frame with the overall score computed by the
\* weights: 0.5.
empty_scores_weighted ==
    [data_quality |-> [num |-> 10, den |-> 20],
     completeness |-> [num |-> 0, den |-> 20],
     consistency |-> [num |-> 20, den |-> 20],
     overall |-> [num |-> 100, den |-> 200]]

\* The scores returned for `df is None or df.empty`: 0.5, 0.0, 1.0, 0.3.
empty_scores ==
    [data_quality |-> [num |-> 10, den |-> 20],
     completeness |-> [num |-> 0, den |-> 20],
     consistency |-> [num |-> 20, den |-> 20],
     overall |-> [num |-> 60, den |-> 200]]

\* ConfidenceScorer.score
score(df) ==
    IF IsEmpty(df) THEN empty_scores
    ELSE LET data_quality == score_data_quality(df)
             completeness == score_completeness(df)
             consistency == score_consistency(df)
         IN  [data_quality |-> data_quality,
              completeness |-> completeness,
              consistency |-> consistency,
              overall |-> weighted_overall(data_quality, completeness, consistency)]

\* {"overall": 0.0}
ZeroScores == [overall |-> [num |-> 0, den |-> 200]]

----------------------------------------------------------------------------
(* agents/validation_agent.py: ValidationAgent                             *)

max_rows == 1000000

\* The issues and warnings are the texts the code builds, with the counts
\* it formats into them.
fatal_negative_columns ==
    { ColRevenue, <<"q", "u", "a", "n", "t", "i", "t", "y">>,
      <<"a", "m", "o", "u", "n", "t">> }

checked_negative_columns ==
    fatal_negative_columns
    \cup { <<"u", "n", "i", "t", "_", "p", "r", "i", "c", "e">>, ColOrders,
           <<"c", "o", "u", "n", "t">> }

categorical_cols ==
    { <<"r", "e", "g", "i", "o", "n">>,
      <<"c", "a", "t", "e", "g", "o", "r", "y">>,
      <<"p", "r", "o", "d", "u", "c", "t">>, <<"m", "o", "n", "t", "h">>,
      <<"q", "u", "a", "r", "t", "e", "r">>, <<"s", "t", "a", "t", "e">>,
      <<"s", "t", "a", "t", "u", "s">> }

suspicious_patterns ==
    { <<"d", "r", "o", "p">>, <<"d", "e", "l", "e", "t", "e">>,
      <<";", "-", "-">>, <<"e", "x", "e", "c">> }

\* Check 1 with >= for >.
check_row_count_inclusive(df) ==
    IF df.rows >= max_rows
    THEN <<"Too many rows: " \o ToString(df.rows)>> ELSE <<>>

\* Check 1: row count bounds
check_row_count(df) ==
    IF df.rows > max_rows
    THEN <<"Too many rows: " \o ToString(df.rows)>> ELSE <<>>

\* Check 2: empty result handling
check_empty(df) ==
    IF df.rows = 0
    THEN <<"Query returned no results - this might be expected">> ELSE <<>>

\* Check 3: data type validation
check_dtypes(df) ==
    IF Len(NumericCols(df)) = 0
       /\ ~\E i \in 1..Len(df.columns) : df.columns[i].name \in categorical_cols
    THEN <<"No numeric columns found in result">> ELSE <<>>

\* Check 4: null value analysis; null_pct > 50 is an issue, > 10 a warning.
\* The issue carries the ratio whose percentage the code prints.
check_nulls(df) ==
    LET total_nulls == TotalNulls(df)
        null_cols == SelectSeq(df.columns, LAMBDA c : c.nulls > 0)
        names == [i \in 1..Len(null_cols) |-> "'" \o Join(null_cols[i].name) \o "'"]
    IN  IF total_nulls > 0 /\ total_nulls * 100 > 50 * Cells(df)
        THEN [issues |-> <<"High null ratio: " \o ToString(total_nulls)
                            \o "/" \o ToString(Cells(df))>>,
              warnings |-> <<>>]
        ELSE IF total_nulls > 0 /\ total_nulls * 100 > 10 * Cells(df)
        THEN [issues |-> <<>>,
              warnings |-> <<"Null values in columns: [" \o JoinWith(names, ", ")
                               \o "]">>]
        ELSE [issues |-> <<>>, warnings |-> <<>>]

RECURSIVE check_negatives(_)
\* Check 5: negative value validation, over the numeric columns `cols`
check_negatives(cols) ==
    IF cols = <<>> THEN [issues |-> <<>>, warnings |-> <<>>]
    ELSE LET col == Head(cols)
             rest == check_negatives(Tail(cols))
             text == <<"Negative values in " \o Join(col.name) \o ": "
                        \o ToString(col.negs)>>
         IN  IF Lower(col.name) \in checked_negative_columns /\ col.negs > 0
             THEN IF Lower(col.name) \in fatal_negative_columns
                  THEN [issues |-> text \o rest.issues, warnings |-> rest.warnings]
                  ELSE [issues |-> rest.issues, warnings |-> text \o rest.warnings]
             ELSE rest

\* Check 6: duplicate detection.  df.duplicated() hashes the rows and
\* raises TypeError on a cell that is not hashable.
check_duplicates(df) ==
    IF df.rows > 0
    THEN IF \E i \in 1..Len(df.columns) : ~df.columns[i].hashable
         THEN [raised |-> TRUE, warnings |-> <<>>]
         ELSE IF df.dups > 0 /\ df.dups * 100 > 50 * df.rows
              THEN [raised |-> FALSE,
                    warnings |-> <<"High duplicate ratio: " \o ToString(df.dups)
                                    \o "/" \o ToString(df.rows)>>]
              ELSE [raised |-> FALSE, warnings |-> <<>>]
    ELSE [raised |-> FALSE, warnings |-> <<>>]

RECURSIVE check_outliers(_, _)
\* Check 7: outlier detection; a column with an IQR outlier has iqr > 0
check_outliers(df, cols) ==
    IF cols = <<>> THEN <<>>
    ELSE LET col == Head(cols) IN
         (IF NonNull(df, col) > 10 /\ col.iqr > 0 /\ col.iqr * 10 > df.rows
          THEN <<"Many outliers detected in " \o Join(col.name)>> ELSE <<>>)
         \o check_outliers(df, Tail(cols))

RECURSIVE check_column_names(_)
\* Check 8: SQL injection patterns in the column names
check_column_names(cols) ==
    IF cols = <<>> THEN <<>>
    ELSE LET col == Head(cols) IN
         (IF \E pattern \in suspicious_patterns : Contains(Lower(col.name), pattern)
          THEN <<"Suspicious column name detected: " \o Join(col.name)>> ELSE <<>>)
         \o check_column_names(Tail(cols))

\* ValidationAgent._comprehensive_validation: the ValidationResult (passed,
\* issues, warnings; its component scores are read by nobody), or the
\* exception a check raises.
comprehensive_validation(df) ==
    LET numeric_cols == NumericCols(df)
        nulls == check_nulls(df)
        negatives == check_negatives(numeric_cols)
        duplicates == check_duplicates(df)
        issues == check_row_count(df) \o nulls.issues \o negatives.issues
                  \o check_column_names(df.columns)
        warnings == check_empty(df) \o check_dtypes(df) \o nulls.warnings
                    \o negatives.warnings \o duplicates.warnings
                    \o check_outliers(df, numeric_cols)
    IN  IF duplicates.raised
        THEN [raised |-> TRUE, error |-> "unhashable type: 'list'",
              passed |-> FALSE, issues |-> <<>>, warnings |-> <<>>]
        ELSE [raised |-> FALSE, error |-> "",
              passed |-> (Len(issues) = 0), issues |-> issues, warnings |-> warnings]

\* ValidationAgent.validate
validate(st) ==
    LET query_result == Get(st, "query_result") IN
    IF ~Truthy(query_result)
    THEN Merge(st, [validation_passed |-> PyBool(FALSE),
                    confidence_scores |-> ZeroScores,
                    error |-> PyStr("No query result to validate")])
    ELSE IF Truthy(Get(st, "error"))
    THEN Merge(st, [validation_passed |-> PyBool(FALSE),
                    confidence_scores |-> ZeroScores])
    ELSE IF IsNone(Get(query_result, "dataframe"))
    THEN Merge(st, [validation_passed |-> PyBool(FALSE),
                    confidence_scores |-> ZeroScores,
                    error |-> PyStr("No dataframe in query result")])
    ELSE LET df == query_result.dataframe
             validation_result == comprehensive_validation(df)
             confidence_scores == score(df)
         IN  IF validation_result.raised
             THEN Merge(st, [validation_passed |-> PyBool(FALSE),
                             confidence_scores |-> ZeroScores,
                             error |-> PyStr("Validation error: "
                                             \o validation_result.error)])
             ELSE IF ~validation_result.passed
             THEN Merge(st, [validation_passed |-> PyBool(FALSE),
                             confidence_scores |-> confidence_scores,
                             validation_warnings |-> PyList(validation_result.warnings),
                             error |-> PyStr("Validation failed: "
                                 \o JoinWith(validation_result.issues, "; "))])
             ELSE Merge(st, [validation_passed |-> PyBool(TRUE),
                             confidence_scores |-> confidence_scores,
                             validation_warnings |-> PyList(validation_result.warnings),
                             error |-> PyNone])

----------------------------------------------------------------------------
(* agents/extraction_agent.py: DataExtractionAgent                         *)

\* state["query_intent"] as the query agent leaves it: an object with the
\* attributes sql_query and explanation.
QueryIntent ==
    [sql_query |-> "SELECT ... FROM sales", explanation |-> "explanation"]

\* What data_layer.execute_query does with the SQL: it returns a frame or
\* raises.
QueryOutcomes ==
    {[raised |-> TRUE, error |-> "Query execution failed"]}
    \cup {[raised |-> FALSE, df |-> df] : df \in DataFrames}

ColumnNames(df) == [i \in 1..Len(df.columns) |-> df.columns[i].name]

\* DataExtractionAgent._generate_summary; the figures of a column's line
\* are left out.
generate_summary(df) ==
    LET numeric_cols == NumericCols(df)
        shown == SubSeq(numeric_cols, 1, Min(5, Len(numeric_cols)))
        lines == [i \in 1..Len(shown) |-> "  - " \o Join(shown[i].name) \o "\n"]
    IN  IF IsEmpty(df) THEN "No data found."
        ELSE "Retrieved " \o ToString(df.rows) \o " records with "
             \o ToString(Len(df.columns)) \o " columns.\n"
             \o (IF Len(numeric_cols) > 0
                 THEN "Numeric summaries:\n" \o JoinWith(lines, "") ELSE "")

\* The dictionary with the records of every row in "data".
result_data_untruncated(df) ==
    [dataframe |-> df,
     row_count |-> df.rows,
     columns |-> ColumnNames(df),
     data |-> [records |-> df.rows],
     summary |-> generate_summary(df)]

\* The dictionary built from the frame; "data" holds the records of the
\* rows 1..records.
result_data(df) ==
    [dataframe |-> df,
     row_count |-> df.rows,
     columns |-> ColumnNames(df),
     data |-> [records |-> IF df.rows <= 100 THEN df.rows ELSE 100],
     summary |-> generate_summary(df)]

\* DataExtractionAgent.extract_data
extract_data(st, outcome) ==
    IF ~Truthy(Get(st, "query_intent"))
    THEN Merge(st, [error |-> PyStr("No query intent provided"),
                    query_result |-> PyNone])
    ELSE IF outcome.raised
    THEN Merge(st, [query_result |-> PyNone,
                    error |-> PyStr("Data extraction error: " \o outcome.error)])
    ELSE Merge(st, [query_result |-> result_data(outcome.df), error |-> PyNone])

----------------------------------------------------------------------------
(* agents/response_agent.py: ResponseAgent                                 *)

important_cols ==
    << <<"o", "r", "d", "e", "r", "_", "i", "d">>,
       <<"d", "a", "t", "e">>,
       <<"c", "a", "t", "e", "g", "o", "r", "y">>,
       <<"p", "r", "o", "d", "u", "c", "t">>,
       <<"q", "t", "y">>,
       <<"a", "m", "o", "u", "n", "t">>,
       <<"s", "t", "a", "t", "u", "s">>,
       <<"f", "u", "l", "f", "i", "l", "l", "e", "d", "_", "b", "y">>,
       <<"s", "h", "i", "p", "_", "c", "i", "t", "y">>,
       <<"s", "h", "i", "p", "_", "s", "t", "a", "t", "e">>,
       <<"s", "i", "z", "e">>,
       <<"t", "o", "t", "a", "l">>,
       <<"s", "a", "l", "e", "s">>,
       <<"r", "e", "v", "e", "n", "u", "e">>,
       <<"q", "u", "a", "n", "t", "i", "t", "y">>,
       <<"p", "r", "i", "c", "e">> >>

\* The rows of the table with every row of the frame serialized.
table_rows_all(df) == df.rows

\* The data rows _format_results serializes: df_subset.to_string() up to 10
\* rows, df_subset.head(5).to_string() above.
table_rows(df) == IF df.rows <= 10 THEN df.rows ELSE Min(5, df.rows)

\* ResponseAgent._format_results: the text before the table, the columns
\* and the number of data rows of the serialized table, whether the
\* describe() statistics are included.
format_results(query_result) ==
    LET df == Get(query_result, "dataframe") IN
    IF IsNone(df) \/ IsEmpty(df)
    THEN [text |-> "No data found matching the query criteria.",
          columns |-> <<>>, rows |-> 0, statistics |-> FALSE]
    ELSE LET names == ColumnNames(df)
             important == SelectSeq(important_cols, LAMBDA c : c \in Range(names))
             available_cols == IF important = <<>>
                               THEN SubSeq(names, 1, Min(10, Len(names)))
                               ELSE important
             df_subset == IF Len(available_cols) < Len(names)
                          THEN available_cols ELSE names
             listed == [i \in 1..Min(15, Len(names)) |-> Join(names[i])]
             formatted ==
                 "Results: " \o ToString(df.rows) \o " records, "
                 \o ToString(Len(names)) \o " columns\nColumns: "
                 \o JoinWith(listed, ", ")
                 \o (IF Len(names) > 15
                     THEN "... (+" \o ToString(Len(names) - 15) \o " more)" ELSE "")
                 \o "\n\n"
             shown == SubSeq(df_subset, 1, Min(10, Len(df_subset)))
         IN  IF df.rows <= 10
             THEN [text |-> formatted, columns |-> shown, rows |-> table_rows(df),
                   statistics |-> FALSE]
             ELSE [text |-> formatted \o "(Showing 5 of " \o ToString(df.rows)
                              \o " total records)",
                   columns |-> shown, rows |-> table_rows(df),
                   statistics |-> (Len(NumericCols(df)) > 0)]

\* What chain.invoke does: the client returns a message or raises (both
\* fallback wrappers raise when every model failed).
LLMOutcomes ==
    {[raised |-> FALSE, content |-> "answer"],
     [raised |-> TRUE, error |-> "All models failed"]}

\* An exception that leaves the agent.
Escaped(e) == [escaped |-> e]

\* generate_response with the validation_passed check left out.
generate_response_unchecked(st, outcome) ==
    LET query_result == Get(st, "query_result")
        query_intent == Get(st, "query_intent")
        call == [question |-> Get(st, "question"),
                 explanation |-> query_intent.explanation,
                 data_summary |-> format_results(query_result)]
    IN  IF ~Truthy(query_result) \/ ~Truthy(query_intent)
        THEN [returned |-> Merge(st, [final_answer |-> PyStr(
                  "I couldn't process your query. Please try rephrasing your question.")]),
              invoked |-> <<>>]
        ELSE IF outcome.raised
        THEN [returned |-> Merge(st, [final_answer |-> PyStr(
                  "I encountered an error generating the response: "
                  \o "Response generation error: " \o outcome.error)]),
              invoked |-> <<call>>]
        ELSE [returned |-> Merge(st, [final_answer |-> PyStr(outcome.content)]),
              invoked |-> <<call>>]

\* generate_response without its except clause.
generate_response_uncaught(st, outcome) ==
    LET r == generate_response_unchecked(st, outcome) IN
    IF ~Truthy(Get(st, "validation_passed"))
    THEN [returned |-> Merge(st, [final_answer |-> PyStr(
              "I encountered an issue processing your query: "
              \o Str(GetOr(st, "error", PyStr("Unknown error"))))]),
          invoked |-> <<>>]
    ELSE IF r.invoked # <<>> /\ outcome.raised
    THEN [returned |-> Escaped(outcome.error), invoked |-> r.invoked]
    ELSE r

\* ResponseAgent.generate_response: the state returned and the calls of
\* chain.invoke made.
generate_response(st, outcome) ==
    LET query_result == Get(st, "query_result")
        query_intent == Get(st, "query_intent")
        call == [question |-> Get(st, "question"),
                 explanation |-> query_intent.explanation,
                 data_summary |-> format_results(query_result)]
    IN  IF ~Truthy(Get(st, "validation_passed"))
        THEN [returned |-> Merge(st, [final_answer |-> PyStr(
                  "I encountered an issue processing your query: "
                  \o Str(GetOr(st, "error", PyStr("Unknown error"))))]),
              invoked |-> <<>>]
        ELSE IF ~Truthy(query_result) \/ ~Truthy(query_intent)
        THEN [returned |-> Merge(st, [final_answer |-> PyStr(
                  "I couldn't process your query. Please try rephrasing your question.")]),
              invoked |-> <<>>]
        ELSE IF outcome.raised
        THEN [returned |-> Merge(st, [final_answer |-> PyStr(
                  "I encountered an error generating the response: "
                  \o "Response generation error: " \o outcome.error)]),
              invoked |-> <<call>>]
        ELSE [returned |-> Merge(st, [final_answer |-> PyStr(outcome.content)]),
              invoked |-> <<call>>]

----------------------------------------------------------------------------
(* The agent chain.  An agent is handed a state by the orchestrator, or by *)
(* a caller that runs it alone, and the chain goes on from its result.     *)

Stages == {"extract", "validate", "respond"}

EmptyDict == <<>>

\* The dictionaries with `key` absent or bound to one of `values`.
Optional(key, values) == {EmptyDict} \cup {key :> v : v \in values}

PriorError == PyStr("prior error")

\* A query_result with a frame, one without the dataframe key.
ResultWithoutFrame == [row_count |-> 0]
SampleResult ==
    result_data([rows |-> 1, dups |-> 0,
                 columns |-> << [name |-> ColRevenue, dtype |-> "number",
                                 nulls |-> 0, negs |-> 0, sigma |-> 0, iqr |-> 0,
                                 wide |-> FALSE, hashable |-> TRUE] >>])

\* Frames of 1, 10, 11 and 60 clean rows with a numeric column, an object
\* column or both, for the results generate_response is called with.
SummaryFrames ==
    LET column(i) == [name |-> Catalogue[i].name, dtype |-> Catalogue[i].dtype,
                      nulls |-> 0, negs |-> 0, sigma |-> 0, iqr |-> 0,
                      wide |-> FALSE, hashable |-> TRUE]
    IN  { [rows |-> n, columns |-> cols, dups |-> 0] :
            n \in {1, 10, 11, 60},
            cols \in { <<column(1)>>, <<column(4)>>, <<column(1), column(4)>> } }

\* The states an agent is called with at `stage`.
InputStates(stage) ==
    LET question == {"question" :> PyStr("What is the total revenue?")}
        intent == Optional("query_intent", {PyNone, QueryIntent})
        error == Optional("error", {PyNone, PriorError})
        results == Optional("query_result", {PyNone, EmptyDict, ResultWithoutFrame})
                   \cup {"query_result" :> result_data(df) : df \in DataFrames}
        passed == Optional("validation_passed", {PyBool(TRUE), PyBool(FALSE)})
    IN  CASE stage = "extract" ->
               {q @@ i @@ e : q \in question, i \in intent, e \in error}
          [] stage = "validate" ->
               {q @@ ("query_intent" :> QueryIntent) @@ e @@ r :
                    q \in question, e \in error, r \in results}
          [] stage = "respond" ->
               {q @@ i @@ e @@ r @@ p :
                    q \in question, i \in intent, e \in error, p \in passed,
                    r \in Optional("query_result",
                                   {PyNone, SampleResult, ResultWithoutFrame}
                                   \cup {result_data(df) : df \in SummaryFrames})}

\* The chain goes on from an agent's return, and stops where an exception
\* leaves the agent.
Handover(r, next) ==
    IF "escaped" \in DOMAIN r
    THEN state' = state /\ pc' = "raised"
    ELSE state' = r /\ pc' = next

ExtractData ==
    /\ pc = "extract"
    /\ \E outcome \in QueryOutcomes :
           Handover(extract_data(state, outcome), "validate")
    /\ called' = "extract_data"
    /\ input' = state
    /\ UNCHANGED <<llm_calls, llmVars, cfgVars>>

Validate ==
    /\ pc = "validate"
    /\ Handover(validate(state), "respond")
    /\ called' = "validate"
    /\ input' = state
    /\ UNCHANGED <<llm_calls, llmVars, cfgVars>>

GenerateResponse ==
    /\ pc = "respond"
    /\ \E outcome \in LLMOutcomes :
           LET r == generate_response(state, outcome) IN
           /\ Handover(r.returned, "done")
           /\ llm_calls' = llm_calls \o r.invoked
    /\ called' = "generate_response"
    /\ input' = state
    /\ UNCHANGED <<llmVars, cfgVars>>

PipelineInit ==
    /\ GeminiInit("gemini-2.0-flash")
    /\ pending = <<>>
    /\ last_error = NoError
    /\ result = NoCall
    /\ start_model = ""
    /\ responses = <<>>
    /\ attempts = <<>>
    /\ calls = 0
    /\ \E stage \in Stages : pc = stage /\ state \in InputStates(stage)
    /\ llm_calls = <<>>
    /\ called = "none"
    /\ input = EmptyDict
    /\ CfgIdle

PipelineNext ==
    \/ ExtractData
    \/ Validate
    \/ GenerateResponse

SpecPipeline == PipelineInit /\ [][PipelineNext]_vars

----------------------------------------------------------------------------
(* config.py and utils/llm_utils.py: get_llm                               *)

OpenAIUrl == PyText(<<"h", "t", "t", "p", "s", ":", "/", "/", "a", "p", "i", ".", "o", "p", "e", "n", "a", "i", ".", "c", "o", "m", "/", "v", "1">>)
OpenRouterUrl == PyText(<<"h", "t", "t", "p", "s", ":", "/", "/", "o", "p", "e", "n", "r", "o", "u", "t", "e", "r", ".", "a", "i", "/", "a", "p", "i", "/", "v", "1">>)
OpenRouterUrlUpper == PyText(<<"h", "t", "t", "p", "s", ":", "/", "/", "O", "p", "e", "n", "R", "o", "u", "t", "e", "r", ".", "a", "i", "/", "a", "p", "i", "/", "v", "1">>)
GroqUrl == PyText(<<"h", "t", "t", "p", "s", ":", "/", "/", "a", "p", "i", ".", "g", "r", "o", "q", ".", "c", "o", "m", "/", "o", "p", "e", "n", "a", "i", "/", "v", "1">>)

\* The process environment and the Streamlit secrets: the keys set and
\* their values.  A secret may be the empty string.
Environs ==
    { p @@ u @@ g @@ q :
        p \in Optional("LLM_PROVIDER", {PyStr("openai"), PyStr("google"),
                                        PyStr("groq"), PyStr("azure")}),
        u \in Optional("OPENAI_BASE_URL", {OpenRouterUrl, OpenRouterUrlUpper}),
        g \in Optional("GOOGLE_API_KEY", {PyStr("google-key")}),
        q \in Optional("GROQ_API_KEY", {PyStr("groq-key")}) }

Secrets ==
    { g @@ m :
        g \in Optional("GOOGLE_API_KEY", {PyStr(""), PyStr("secret-key")}),
        m \in Optional("GEMINI_MODEL", {PyStr("gemini-1.5-pro-latest")}) }

\* GEMINI_AVAILABLE is whether langchain_google_genai could be imported.
Environments ==
    [environ : Environs, secrets : Secrets, GEMINI_AVAILABLE : BOOLEAN]

\* os.getenv(key, default)
getenv(environ, key, default) ==
    IF key \in DOMAIN environ THEN environ[key] ELSE default

\* config.get_secret
get_secret(e, key, default) ==
    IF Truthy(getenv(e.environ, key, PyNone)) THEN e.environ[key]
    ELSE IF key \in DOMAIN e.secrets THEN e.secrets[key]
    ELSE default

\* config.Settings: the fields of the class with their defaults.
Settings(environ) ==
    [llm_provider |-> getenv(environ, "LLM_PROVIDER", PyStr("google")),
     openai_api_key |-> getenv(environ, "OPENAI_API_KEY", PyNone),
     openai_model |-> getenv(environ, "OPENAI_MODEL", PyStr("gpt-4o-mini")),
     openai_base_url |-> getenv(environ, "OPENAI_BASE_URL", OpenAIUrl),
     google_api_key |-> getenv(environ, "GOOGLE_API_KEY", PyNone),
     gemini_model |-> getenv(environ, "GEMINI_MODEL", PyStr("gemini-2.0-flash")),
     data_path |-> getenv(environ, "DATA_PATH", PyStr("./data/sales_data.csv")),
     duckdb_path |-> getenv(environ, "DUCKDB_PATH", PyStr(":memory:")),
     log_level |-> getenv(environ, "LOG_LEVEL", PyStr("INFO"))]

\* The exceptions get_llm ends with, and the clients it returns.
Raises(type, message) == [kind |-> "raise", type |-> type, message |-> message]

Client(class, model, base_url, api_key) ==
    [kind |-> "client", class |-> class, model |-> model,
     base_url |-> base_url, api_key |-> api_key]

\* settings.<name>: AttributeError for a name that is no field of Settings.
HasField(settings, name) == name \in DOMAIN settings

NoSuchField(name) ==
    Raises("AttributeError", "'Settings' object has no attribute '" \o name \o "'")

\* x or y
Or(x, y) == IF Truthy(x) THEN x ELSE y

\* get_llm, provider == "openai"
get_llm_openai(e, settings, model) ==
    LET chosen == Or(model, get_secret(e, "OPENAI_MODEL", settings.openai_model))
        base_url == get_secret(e, "OPENAI_BASE_URL", settings.openai_base_url)
        api_key == get_secret(e, "OPENAI_API_KEY", settings.openai_api_key)
    IN  IF Truthy(base_url) /\ Contains(base_url.text, <<"o", "p", "e", "n", "r", "o", "u", "t", "e", "r">>)
        THEN Client("OpenRouterLLM", chosen, base_url, api_key)
        ELSE Client("ChatOpenAI", chosen,
                    IF Truthy(base_url) THEN base_url ELSE PyNone, api_key)

\* get_llm, provider == "google"
get_llm_google(e, settings, model, use_fallback) ==
    LET api_key == get_secret(e, "GOOGLE_API_KEY", PyNone)
        chosen == Or(model, get_secret(e, "GEMINI_MODEL", settings.gemini_model))
    IN  IF ~e.GEMINI_AVAILABLE
        THEN Raises("ImportError", "Google Gemini is not available. Install with: pip install langchain-google-genai")
        ELSE IF ~Truthy(api_key)
        THEN Raises("ValueError", "Google API key not found. Set GOOGLE_API_KEY in environment or Streamlit secrets.")
        ELSE IF use_fallback
        THEN Client("GeminiFallbackLLM", chosen, PyNone, api_key)
        ELSE Client("ChatGoogleGenerativeAI", chosen, PyNone, api_key)

\* get_llm, provider == "groq".  The default of each get_secret is
\* evaluated before the call: settings.groq_model unless `model` is truthy,
\* settings.groq_api_key always.
get_llm_groq(e, settings, model) ==
    IF ~Truthy(model) /\ ~HasField(settings, "groq_model")
    THEN NoSuchField("groq_model")
    ELSE IF ~HasField(settings, "groq_api_key")
    THEN NoSuchField("groq_api_key")
    ELSE LET chosen == Or(model, get_secret(e, "GROQ_MODEL", settings.groq_model))
             api_key == get_secret(e, "GROQ_API_KEY", settings.groq_api_key)
         IN  IF ~Truthy(api_key)
             THEN Raises("ValueError", "Groq API key not found. Set GROQ_API_KEY in environment or Streamlit secrets.")
             ELSE Client("ChatOpenAI", chosen, GroqUrl, api_key)

\* utils.llm_utils.get_llm(model=model, use_fallback=use_fallback)
get_llm(e, model, use_fallback) ==
    LET settings == Settings(e.environ)
        provider == get_secret(e, "LLM_PROVIDER", settings.llm_provider)
    IN  IF provider = PyStr("openai") THEN get_llm_openai(e, settings, model)
        ELSE IF provider = PyStr("google")
        THEN get_llm_google(e, settings, model, use_fallback)
        ELSE IF provider = PyStr("groq") THEN get_llm_groq(e, settings, model)
        ELSE Raises("ValueError", "Unsupported LLM provider: " \o provider.str)

\* The `model` argument: left out, or a model name.
ModelArguments == {PyNone, PyStr("custom-model")}

GetLLMInit ==
    /\ GeminiInit("gemini-2.0-flash")
    /\ pending = <<>>
    /\ last_error = NoError
    /\ result = NoCall
    /\ start_model = ""
    /\ responses = <<>>
    /\ attempts = <<>>
    /\ calls = 0
    /\ PipeIdle
    /\ environment \in Environments
    /\ built = [kind |-> "none"]

\* One call of get_llm in the environment.
GetLLM ==
    /\ \E model \in ModelArguments, use_fallback \in BOOLEAN :
           built' = get_llm(environment, model, use_fallback)
                        @@ [model_arg |-> model, use_fallback |-> use_fallback]
    /\ UNCHANGED <<environment, llmVars, pipeVars>>

GetLLMNext == GetLLM

SpecGetLLM == GetLLMInit /\ [][GetLLMNext]_vars

----------------------------------------------------------------------------
(* Properties of the fallback chains                                       *)

IsPrefix(s, t) == Len(s) <= Len(t) /\ \A i \in 1..Len(s) : s[i] = t[i]

Distinct(s) == \A i, j \in 1..Len(s) : i # j => s[i] # s[j]

Gemini == client = "GeminiFallbackLLM"
OpenRouter == client = "OpenRouterLLM"

\* The error texts of a rate limit, an exhausted quota and a model that
\* was not found.
RateLimitErrors == {Err429, ErrQuota, ErrNotFound}

\* The attempt failed with a fallback-eligible error.
EligibleFailure(r) == ~r.ok /\ r.error \in RateLimitErrors

\* GEMINI_FALLBACK_MODELS in order, without the model `m`.
FallbacksWithout(m) == SelectSeq(GEMINI_FALLBACK_MODELS, LAMBDA x : x # m)

\* C1: when the first attempt of GeminiFallbackLLM._generate fails with a
\* fallback-eligible error, the models requested after it are those of
\* GEMINI_FALLBACK_MODELS in list order without the model that was current
\* when the call began; every model is requested while the ones before it
\* failed with eligible errors, the call returns the answer of the first
\* model that succeeds, and no model is requested after a success.
C1_FallbackOrder ==
    (Gemini /\ attempts # <<>> /\ EligibleFailure(responses[1])) =>
        LET chain == <<start_model>> \o FallbacksWithout(start_model)
            n == Len(attempts)
        IN  /\ IsPrefix(attempts, chain)
            /\ \A i \in 1..(n - 1) : ~responses[i].ok
            /\ responses[n].ok <=> result = Return(attempts[n])
            /\ (\A i \in 1..n : EligibleFailure(responses[i])) =>
                   IF n < Len(chain) THEN result = Running /\ Head(pending) = chain[n + 1]
                   ELSE result.kind = "raise"

\* C1 witness: a call that began on the third model of the list, skipped it
\* among the fallbacks and returned the answer of the fourth model requested.
C1_Witness ==
    /\ Gemini
    /\ start_model = GEMINI_FALLBACK_MODELS[3]
    /\ attempts = <<GEMINI_FALLBACK_MODELS[3], GEMINI_FALLBACK_MODELS[1],
                    GEMINI_FALLBACK_MODELS[2], GEMINI_FALLBACK_MODELS[4]>>
    /\ result = Return(GEMINI_FALLBACK_MODELS[4])

\* The response is a failure of the kind the fallback chain is for: a
\* rate-limit, quota or not-found error (for OpenRouter: HTTP 429).
RateLimitFailure(r) ==
    IF Gemini THEN EligibleFailure(r)
    ELSE ~r.raised /\ r.status_code = 429

\* C2 as stated: in both wrappers a model is requested after another only
\* when the preceding attempt failed with a rate-limit, quota or not-found
\* error.
C2_OnlyAfterRateLimit ==
    \A i \in 2..Len(attempts) : RateLimitFailure(responses[i - 1])

\* The attempt did not produce an answer.
OpenRouterFailure(r) == r.raised \/ r.status_code # 200 \/ ~r.has_content

\* C2 amended: GeminiFallbackLLM requests a further model only after an
\* attempt that failed with a fallback-eligible error, and ends the call with
\* that error after any other failure; OpenRouterLLM requests a further model
\* after every failed attempt, whatever its kind, while models remain.
C2_FallbackTrigger ==
    /\ Gemini =>
         /\ \A i \in 2..Len(attempts) : EligibleFailure(responses[i - 1])
         /\ \A i \in 1..Len(attempts) :
              (~responses[i].ok /\ ~EligibleFailure(responses[i])) =>
                  i = Len(attempts) /\ result = Raise(responses[i].error)
    /\ OpenRouter =>
         /\ \A i \in 2..Len(attempts) : OpenRouterFailure(responses[i - 1])
         /\ (attempts # <<>> /\ OpenRouterFailure(responses[Len(attempts)])) =>
              IF Len(attempts) < Len(models_to_try(model_name))
              THEN result = Running
              ELSE result.kind = "raise"

\* C2 witness: OpenRouterLLM requested a second model after an HTTP 500.
C2_Witness ==
    /\ OpenRouter
    /\ Len(attempts) = 2
    /\ ~responses[1].raised
    /\ responses[1].status_code = 500

\* C3 as stated: every call of GeminiFallbackLLM._generate requests the
\* configured primary model first.
C3_PrimaryFirst ==
    (Gemini /\ attempts # <<>>) => attempts[1] = primary_model

\* C4 as stated: OpenRouterLLM._generate requests the configured model, then
\* the other models of OPENROUTER_FALLBACK_MODELS in list order, each at most
\* once, and requests no model after one that answered HTTP 200.
C4_StopAtFirst200 ==
    OpenRouter =>
        /\ IsPrefix(attempts, <<model_name>> \o
                SelectSeq(OPENROUTER_FALLBACK_MODELS, LAMBDA x : x # model_name))
        /\ Distinct(attempts)
        /\ \A i \in 1..(Len(attempts) - 1) :
              responses[i].raised \/ responses[i].status_code # 200
        /\ \A i \in 1..Len(attempts) :
              (~responses[i].raised /\ responses[i].status_code = 200) =>
                  result = Return(attempts[i])

\* C4 amended: the same order, each model at most once; the call returns the
\* answer of the first model that answers HTTP 200 with a body holding
\* choices[0].message.content and requests no model after it; a 200 without
\* that content counts as a failed attempt.
C4_StopAtFirstAnswer ==
    OpenRouter =>
        /\ IsPrefix(attempts, <<model_name>> \o
                SelectSeq(OPENROUTER_FALLBACK_MODELS, LAMBDA x : x # model_name))
        /\ Distinct(attempts)
        /\ \A i \in 1..(Len(attempts) - 1) : OpenRouterFailure(responses[i])
        /\ \A i \in 1..Len(attempts) :
              ~OpenRouterFailure(responses[i]) => result = Return(attempts[i])
        /\ result.kind = "return" =>
              /\ attempts # <<>>
              /\ ~OpenRouterFailure(responses[Len(attempts)])

\* C4 witness: configured with the third model of the list, the call
\* requested it, then the first, second and fourth of the list, and
\* returned the fourth's answer.
C4_Witness ==
    /\ OpenRouter
    /\ model_name = OPENROUTER_FALLBACK_MODELS[3]
    /\ attempts = <<OPENROUTER_FALLBACK_MODELS[3], OPENROUTER_FALLBACK_MODELS[1],
                    OPENROUTER_FALLBACK_MODELS[2], OPENROUTER_FALLBACK_MODELS[4]>>
    /\ result = Return(OPENROUTER_FALLBACK_MODELS[4])

----------------------------------------------------------------------------
(* Properties of the agent chain (specification SpecPipeline)              *)

\* The frame validate was handed, when it was handed one.
ValidatedFrame == input.query_result.dataframe

\* validate returned, having been given a query result with a dataframe
\* and no prior error.
ValidateChecked ==
    /\ called = "validate"
    /\ Truthy(Get(input, "query_result"))
    /\ ~IsNone(Get(Get(input, "query_result"), "dataframe"))
    /\ ~Truthy(Get(input, "error"))

\* a = b for two fractions
SameValue(a, b) ==
    IF a.den = b.den THEN a.num = b.num ELSE a.num * b.den = b.num * a.den

\* 0.4 * data_quality + 0.3 * completeness + 0.3 * consistency of a
\* dictionary whose sub-scores have one denominator
WeightedCombination(scores) ==
    [num |-> 4 * scores.data_quality.num + 3 * scores.completeness.num
             + 3 * scores.consistency.num,
     den |-> 10 * scores.data_quality.den]

OverallIsWeighted(scores) ==
    /\ scores.completeness.den = scores.data_quality.den
    /\ scores.consistency.den = scores.data_quality.den
    /\ SameValue(scores.overall, WeightedCombination(scores))

\* C5 as stated: for every query result the overall confidence returned by
\* ConfidenceScorer.score is 0.4 * data_quality + 0.3 * completeness
\* + 0.3 * consistency of the sub-scores returned with it.
C5_OverallIsWeighted ==
    ValidateChecked /\ "data_quality" \in DOMAIN state.confidence_scores =>
        OverallIsWeighted(state.confidence_scores)

\* C5 amended: for every query result with at least one row the overall
\* confidence returned by ConfidenceScorer.score is 0.4 * data_quality
\* + 0.3 * completeness + 0.3 * consistency of the sub-scores returned with
\* it; for an empty result the overall score is the fixed 0.3.
C5_OverallIsWeightedNonEmpty ==
    ValidateChecked /\ "data_quality" \in DOMAIN state.confidence_scores =>
        IF ValidatedFrame.rows > 0
        THEN OverallIsWeighted(state.confidence_scores)
        ELSE state.confidence_scores.overall.num * 10
                 = 3 * state.confidence_scores.overall.den

\* C5 witness: a frame with rows was scored, its three sub-scores differ
\* from one another and none is 1.
C5_Witness ==
    /\ ValidateChecked
    /\ ValidatedFrame.rows > 0
    /\ "data_quality" \in DOMAIN state.confidence_scores
    /\ LET sc == state.confidence_scores IN
       /\ sc.data_quality.num # sc.completeness.num
       /\ sc.data_quality.num # sc.consistency.num
       /\ sc.completeness.num # sc.consistency.num
       /\ sc.data_quality.num < sc.data_quality.den
       /\ sc.completeness.num < sc.completeness.den
       /\ sc.consistency.num < sc.consistency.den

\* The four fatal checks, as the claim lists them.
TooManyRows(df) == df.rows > 1000000

MostlyNull(df) == TotalNulls(df) * 2 > Cells(df)

NegativeInMoneyColumn(df) ==
    \E i \in 1..Len(df.columns) :
        /\ df.columns[i].dtype = "number"
        /\ Lower(df.columns[i].name)
               \in { <<"r", "e", "v", "e", "n", "u", "e">>,
                     <<"q", "u", "a", "n", "t", "i", "t", "y">>,
                     <<"a", "m", "o", "u", "n", "t">> }
        /\ df.columns[i].negs > 0

SuspiciousName(df) ==
    \E i \in 1..Len(df.columns) :
        \E pattern \in { <<"d", "r", "o", "p">>, <<"d", "e", "l", "e", "t", "e">>,
                         <<";", "-", "-">>, <<"e", "x", "e", "c">> } :
            Contains(Lower(df.columns[i].name), pattern)

FatalCheckFires(df) ==
    TooManyRows(df) \/ MostlyNull(df) \/ NegativeInMoneyColumn(df)
    \/ SuspiciousName(df)

\* A check raises: df.duplicated() over rows with a cell that cannot be
\* hashed.
CheckRaises(df) ==
    df.rows > 0 /\ \E i \in 1..Len(df.columns) : ~df.columns[i].hashable

\* A frame with clean revenue and orders columns.
CleanRevenueOrders(df) ==
    /\ df.rows \in 1..1000000
    /\ Len(df.columns) = 2
    /\ df.columns[1].name = ColRevenue
    /\ df.columns[2].name = ColOrders
    /\ \A i \in 1..2 : df.columns[i].nulls = 0 /\ df.columns[i].negs = 0

\* C6 as stated: for a state with a query result, a dataframe and no prior
\* error, validate returns validation_passed = True if and only if none of
\* the four fatal checks fires.
C6_PassedIffNoFatalCheck ==
    ValidateChecked =>
        (state.validation_passed = PyBool(TRUE) <=> ~FatalCheckFires(ValidatedFrame))

\* C6 amended: for a state with a query result, a dataframe and no prior
\* error, validate returns validation_passed = True if and only if none of
\* the four fatal checks fires and no check raises; warnings alone never
\* make validation fail, and a frame with clean revenue and orders columns
\* is valid with no issue (error None).
C6_PassedIffNoFatalCheckNorRaise ==
    ValidateChecked =>
        /\ state.validation_passed = PyBool(TRUE)
               <=> ~FatalCheckFires(ValidatedFrame) /\ ~CheckRaises(ValidatedFrame)
        /\ CleanRevenueOrders(ValidatedFrame) =>
               state.validation_passed = PyBool(TRUE) /\ state.error = PyNone

\* C6 witness: validate passed a frame that drew two warnings or more.
C6_Witness ==
    /\ ValidateChecked
    /\ state.validation_passed = PyBool(TRUE)
    /\ Len(state.validation_warnings.list) >= 2

IsString(v) == "str" \in DOMAIN v

\* C7: every run of the chain extract_data -> validate -> generate_response
\* ends with final_answer set to a string, and no exception leaves an agent,
\* whatever the SQL execution, the validation and the LLM call do.
C7_FinalAnswerIsString ==
    /\ pc # "raised"
    /\ pc = "done" => "final_answer" \in DOMAIN state /\ IsString(state.final_answer)

\* C7 witness: the chain ended after the LLM call raised.
C7_Witness ==
    /\ pc = "done"
    /\ llm_calls # <<>>
    /\ state.final_answer = PyStr("I encountered an error generating the response: "
           \o "Response generation error: All models failed")

\* C8: generate_response invokes the LLM only when validation_passed is
\* truthy and query_result and query_intent are present; when
\* validation_passed is falsy it makes no LLM call and returns final_answer
\* 'I encountered an issue processing your query: <error>'.
C8_LLMOnlyWhenValidated ==
    called = "generate_response" =>
        /\ llm_calls # <<>> =>
               /\ Truthy(Get(input, "validation_passed"))
               /\ Truthy(Get(input, "query_result"))
               /\ Truthy(Get(input, "query_intent"))
        /\ ~Truthy(Get(input, "validation_passed")) =>
               /\ llm_calls = <<>>
               /\ state.final_answer =
                      PyStr("I encountered an issue processing your query: "
                            \o (IF "error" \in DOMAIN input
                                THEN IF IsNone(input.error) THEN "None"
                                     ELSE input.error.str
                                ELSE "Unknown error"))

\* C8 witness: generate_response was given a state whose validation failed
\* although query_result and query_intent are present.
C8_Witness ==
    /\ called = "generate_response"
    /\ Get(input, "validation_passed") = PyBool(FALSE)
    /\ Truthy(Get(input, "query_result"))
    /\ Truthy(Get(input, "query_intent"))
    /\ llm_calls = <<>>

\* C9: an empty query result (zero rows, no suspicious column name) is
\* allowed: validate, given it with no prior error, returns
\* validation_passed = True and error = None with the warning that the query
\* returned no results, and the confidence scores are data_quality 0.5,
\* completeness 0.0, consistency 1.0, overall 0.3.
C9_EmptyResultAllowed ==
    ValidateChecked /\ ValidatedFrame.rows = 0 /\ ~SuspiciousName(ValidatedFrame) =>
        /\ state.validation_passed = PyBool(TRUE)
        /\ state.error = PyNone
        /\ "Query returned no results - this might be expected"
               \in Range(state.validation_warnings.list)
        /\ LET sc == state.confidence_scores IN
           /\ 2 * sc.data_quality.num = sc.data_quality.den
           /\ sc.completeness.num = 0
           /\ sc.consistency.num = sc.consistency.den
           /\ 10 * sc.overall.num = 3 * sc.overall.den

\* C9 witness: validate returned for a frame with columns and no rows.
C9_Witness ==
    /\ ValidateChecked
    /\ ValidatedFrame.rows = 0
    /\ Len(ValidatedFrame.columns) = 2
    /\ ~SuspiciousName(ValidatedFrame)
    /\ state.validation_passed = PyBool(TRUE)

\* C10 as stated: the result of extract_data contains the key 'error' only
\* when extraction failed; after a successful extraction (query_result is
\* the result dictionary) it has no 'error' key.
C10_ErrorKeyOnlyOnFailure ==
    called = "extract_data" /\ "error" \in DOMAIN state =>
        IsNone(state.query_result)

----------------------------------------------------------------------------
(* Properties of get_llm (specification SpecGetLLM)                        *)

\* get_llm was called.
Built == built.kind # "none"

\* What the environment and the secrets resolve a key to, None when
\* neither sets it.
Resolved(key) ==
    IF key \in DOMAIN environment.environ THEN environment.environ[key]
    ELSE IF key \in DOMAIN environment.secrets THEN environment.secrets[key]
    ELSE PyNone

\* The resolved provider; the default of the settings is "google".
Provider ==
    IF IsNone(Resolved("LLM_PROVIDER")) THEN "google" ELSE Resolved("LLM_PROVIDER").str

\* The base URL contains 'openrouter'.
BaseUrlIsOpenRouter == Resolved("OPENAI_BASE_URL") = OpenRouterUrl

KeyResolves(key) == ~IsNone(Resolved(key)) /\ Resolved(key).str # ""

IsClient(class) == built.kind = "client" /\ built.class = class

IsError(type) == built.kind = "raise" /\ built.type = type

\* C11: get_llm selects the client from the resolved provider alone: 'openai'
\* gives OpenRouterLLM exactly when the base URL contains 'openrouter' and
\* ChatOpenAI otherwise; 'google' (package and key present) gives
\* GeminiFallbackLLM when use_fallback is true and the plain Gemini client
\* otherwise; 'groq' (key present) gives ChatOpenAI against the Groq base
\* URL; every other provider raises ValueError 'Unsupported LLM provider'.
C11_ClientByProvider ==
    Built =>
        /\ Provider = "openai" =>
               IF BaseUrlIsOpenRouter THEN IsClient("OpenRouterLLM")
               ELSE IsClient("ChatOpenAI")
        /\ Provider = "google" /\ environment.GEMINI_AVAILABLE
           /\ KeyResolves("GOOGLE_API_KEY") =>
               IF built.use_fallback THEN IsClient("GeminiFallbackLLM")
               ELSE IsClient("ChatGoogleGenerativeAI")
        /\ Provider = "groq" /\ KeyResolves("GROQ_API_KEY") =>
               IsClient("ChatOpenAI") /\ built.base_url = GroqUrl
        /\ Provider \notin {"openai", "google", "groq"} =>
               /\ IsError("ValueError")
               /\ built.message = "Unsupported LLM provider: " \o Provider

\* C12: for provider 'google' or 'groq', get_llm raises ValueError and
\* constructs no client when no API key resolves from environment or
\* secrets; for 'google' the ImportError for a missing Gemini package is
\* raised before the key is looked at.
C12_NoKeyIsValueError ==
    Built =>
        /\ Provider = "google" /\ ~environment.GEMINI_AVAILABLE => IsError("ImportError")
        /\ Provider = "google" /\ environment.GEMINI_AVAILABLE
           /\ ~KeyResolves("GOOGLE_API_KEY") => IsError("ValueError")
        /\ Provider = "groq" /\ ~KeyResolves("GROQ_API_KEY") => IsError("ValueError")

----------------------------------------------------------------------------
(* Properties of the agent chain, continued (specification SpecPipeline)   *)

\* generate_response returned after calling the LLM; Summary is the
\* data_summary it sent, SummarizedFrame the dataframe it was made from
\* (None when the query result has none).
Summarized == called = "generate_response" /\ llm_calls # <<>>

Summary == llm_calls[Len(llm_calls)].data_summary

SummarizedFrame == Get(input.query_result, "dataframe")

NoDataText == "No data found matching the query criteria."

RowsAreBounded ==
    /\ Summary.rows <= 10
    /\ IF IsNone(SummarizedFrame) \/ SummarizedFrame.rows = 0
       THEN Summary.text = NoDataText /\ Summary.rows = 0
       ELSE /\ Summary.text # NoDataText
            /\ SummarizedFrame.rows <= 10 =>
                   Summary.rows = SummarizedFrame.rows /\ ~Summary.statistics
            /\ SummarizedFrame.rows > 10 => Summary.rows = 5

HasNumericColumn(df) ==
    \E i \in 1..Len(df.columns) : df.columns[i].dtype = "number"

\* C13 as stated: the summary _format_results builds serializes all rows
\* of a result of at most 10 rows, the first 5 rows plus summary statistics
\* of a result of more than 10 rows, never more than 10 data rows, and is
\* the fixed text 'No data found matching the query criteria.' when the
\* dataframe is missing or empty.
C13_SummaryRowsBounded ==
    Summarized =>
        /\ RowsAreBounded
        /\ ~IsNone(SummarizedFrame) /\ SummarizedFrame.rows > 10 => Summary.statistics

\* C13 amended: as stated, but of a result of more than 10 rows the summary
\* statistics are included exactly when the frame has a numeric column.
C13_SummaryRowsBoundedStatsIfNumeric ==
    Summarized =>
        /\ RowsAreBounded
        /\ ~IsNone(SummarizedFrame) /\ SummarizedFrame.rows > 10 =>
               (Summary.statistics <=> HasNumericColumn(SummarizedFrame))

\* C13 witness: a result of 11 rows was summarized by 5 rows and the
\* statistics.
C13_Witness ==
    /\ Summarized
    /\ ~IsNone(SummarizedFrame)
    /\ SummarizedFrame.rows = 11
    /\ Summary.rows = 5
    /\ Summary.statistics

\* extract_data returned a query result.
Extracted == called = "extract_data" /\ ~IsNone(state.query_result)

\* C14: after a successful extract_data, query_result.row_count is the full
\* number of rows the query returned and query_result.data holds at most 100
\* records: those of all rows when there are at most 100, those of the first
\* 100 rows otherwise.
C14_RowCountFullDataCapped ==
    Extracted =>
        LET query_result == state.query_result
            rows == query_result.dataframe.rows
        IN  /\ query_result.row_count = rows
            /\ query_result.data.records <= 100
            /\ rows <= 100 => query_result.data.records = rows
            /\ rows > 100 => query_result.data.records = 100

\* C14 witness: a query that returned 1,000,000 rows was extracted.
C14_Witness ==
    /\ Extracted
    /\ state.query_result.row_count = 1000000
    /\ state.query_result.data.records = 100

----------------------------------------------------------------------------
(* Properties of the fallback chains, continued (specifications Spec and   *)
(* SpecFair)                                                               *)

AllEligibleFailures == \A i \in 1..Len(attempts) : EligibleFailure(responses[i])

\* C15: if the first attempt and every fallback attempt of
\* GeminiFallbackLLM._generate fail with fallback-eligible errors, the call
\* raises 'All Gemini models exhausted' only after every model of the
\* fallback list has been attempted, and the error raised carries the text
\* of the first attempt's error.
C15_ExhaustedAfterAllModels ==
    Gemini =>
        /\ result.exhausted =>
               /\ AllEligibleFailures
               /\ Range(GEMINI_FALLBACK_MODELS) \subseteq Range(attempts)
               /\ result.error = responses[1].error
        /\ (attempts # <<>> /\ AllEligibleFailures /\ result.kind # "running") =>
               result.kind = "raise" /\ result.exhausted

\* C15 witness: the call raised 'All Gemini models exhausted' with the 429
\* of the first attempt after the last fallback failed on its quota.
C15_Witness ==
    /\ Gemini
    /\ result = Exhausted(Err429)
    /\ responses[Len(responses)].error = ErrQuota

\* C16: an error of GeminiFallbackLLM._generate that is not
\* fallback-eligible ends the call at once: from the first attempt it is
\* re-raised, no fallback is attempted and current_model is unchanged; from
\* a fallback attempt it is raised and the remaining fallback models are not
\* attempted.
C16_OtherErrorEndsCall ==
    Gemini =>
        \A i \in 1..Len(attempts) :
            (~responses[i].ok /\ responses[i].error \notin RateLimitErrors) =>
                /\ i = Len(attempts)
                /\ result.kind = "raise"
                /\ ~result.exhausted
                /\ result.error = responses[i].error
                /\ pending = <<>>
                /\ i = 1 => current_model = start_model

\* C16 witness: the second attempt of a call timed out and the call raised
\* the timeout with three fallback models not attempted.
C16_Witness ==
    /\ Gemini
    /\ start_model = GEMINI_FALLBACK_MODELS[1]
    /\ Len(attempts) = 2
    /\ result = Raise(ErrTimeout)

\* The chain of an OpenRouterLLM call and the last_error a failed attempt
\* leaves.
OpenRouterChain ==
    <<model_name>> \o SelectSeq(OPENROUTER_FALLBACK_MODELS, LAMBDA x : x # model_name)

FailureOf(model, r) ==
    IF r.raised \/ r.status_code = 200 THEN RaisedError(model)
    ELSE IF r.status_code = 429 THEN RateLimited(model)
    ELSE ApiError(model)

\* C17: OpenRouterLLM._generate either returns the content of exactly one
\* model's HTTP 200 response, or raises 'All models failed. Last error: <e>'
\* after every model of the chain was attempted exactly once, <e> being the
\* failure of the last model attempted; a 200 response without
\* choices[0].message.content is a failure of its model and the next model
\* is attempted.
C17_ReturnOneOrRaiseLast ==
    (OpenRouter /\ attempts # <<>>) =>
        LET n == Len(attempts)
            answered == {i \in 1..n : ~OpenRouterFailure(responses[i])}
        IN  /\ result.kind \in {"running", "return", "raise"}
            /\ result.kind = "return" =>
                   answered = {n} /\ result = Return(attempts[n])
            /\ result.kind = "raise" =>
                   /\ attempts = OpenRouterChain
                   /\ answered = {}
                   /\ result = Raise(FailureOf(attempts[n], responses[n]))
            /\ result.kind = "running" =>
                   /\ answered = {}
                   /\ n < Len(OpenRouterChain)
                   /\ Head(pending) = OpenRouterChain[n + 1]

\* C17 witness: every model of the chain failed, the last with a 200
\* response without content, and the call raised that failure.
C17_Witness ==
    /\ OpenRouter
    /\ attempts = OpenRouterChain
    /\ result.kind = "raise"
    /\ responses[1].status_code = 429
    /\ ~responses[Len(responses)].raised
    /\ responses[Len(responses)].status_code = 200

\* C18: OpenRouterLLM._generate never changes the configured model:
\* whatever the calls and their outcomes, _model_name keeps the
\* constructor's value and each call tries that model first.
C18_ModelNameKept ==
    [][OpenRouter =>
          /\ model_name' = model_name
          /\ attempts' # <<>> => attempts'[1] = model_name]_vars

\* C18 witness: the second call on an instance configured with a model
\* outside the list, whose first attempt failed, goes on.
C18_Witness ==
    /\ OpenRouter
    /\ calls = 2
    /\ model_name = "gpt-4o-mini"
    /\ attempts = <<"gpt-4o-mini">>
    /\ result = Running

\* C19: after any sequence of GeminiFallbackLLM._generate calls,
\* current_model names the model for which the client _llm was last
\* constructed (after a successful call the model that produced the result
\* returned), and primary_model holds the value given to the constructor.
C19_CurrentModelTracksClient ==
    /\ Gemini => llm = current_model
    /\ [][Gemini =>
            /\ llm' = current_model'
            /\ result'.kind = "return" => result'.model = current_model'
            /\ primary_model' = primary_model]_vars

\* C19 witness: a second call returned the answer of a fallback model.
C19_Witness ==
    /\ Gemini
    /\ calls = 2
    /\ result.kind = "return"
    /\ Len(attempts) = 3
    /\ current_model = attempts[3]
    /\ current_model # primary_model

\* C20: one GeminiFallbackLLM._generate call attempts no model more than
\* once and makes at most 5 attempts; provided each attempt returns or
\* raises, the call ends with a result or a raised error.
C20_CallTerminates ==
    /\ [](Gemini => Distinct(attempts) /\ Len(attempts) <= 5)
    /\ (Gemini /\ result.kind = "running") ~> (result.kind \in {"return", "raise"})

\* C20 witness: a call that made 5 attempts and ended.
C20_Witness ==
    /\ Gemini
    /\ Len(attempts) = 5
    /\ result.kind \in {"return", "raise"}

----------------------------------------------------------------------------
(* Frame of the agents (specification SpecPipeline)                        *)

\* The keys an agent may set.
OwnKeys(agent) ==
    CASE agent = "extract_data" -> {"query_result", "error"}
      [] agent = "validate" -> {"validation_passed", "confidence_scores",
                                "validation_warnings", "error"}
      [] agent = "generate_response" -> {"final_answer"}
      [] OTHER -> {}

\* C21: the state an agent returns differs from the state it was given only
\* in the agent's own keys (extract_data: query_result and error; validate:
\* validation_passed, confidence_scores, validation_warnings and error;
\* generate_response: final_answer); every other key of the state given is
\* carried over with its value, and no other key is added.
C21_OnlyOwnKeysChange ==
    called # "none" =>
        /\ DOMAIN input \subseteq DOMAIN state
        /\ DOMAIN state \subseteq DOMAIN input \cup OwnKeys(called)
        /\ \A k \in DOMAIN input \ OwnKeys(called) : state[k] = input[k]

\* C21 witness: validate failed a state that came with question,
\* query_intent, query_result and error; it set its four keys and carried
\* the three others over.
C21_Witness ==
    /\ called = "validate"
    /\ DOMAIN input = {"question", "query_intent", "query_result", "error"}
    /\ DOMAIN state = DOMAIN input \cup OwnKeys("validate")
    /\ state.error # input.error
    /\ state.query_result = input.query_result
    /\ state.validation_passed = PyBool(FALSE)

====
